---------------------------- MODULE Spec2Model ----------------------------
(***************************************************************************)
(* Model of rust-crypto-analyzer/src/lib.rs: the password policy analysis  *)
(* (check_password_policy and its helpers), verify_password_hash,          *)
(* hash_password and the parallel batch_hash_passwords.                    *)
(*                                                                         *)
(* A Rust `String` is modelled as the sequence of its characters (Unicode  *)
(* scalar values); each character carries the properties the code reads:   *)
(* its UTF-8 width, its Unicode classes and its lowercase mapping.         *)
(***************************************************************************)
EXTENDS Integers, Sequences, FiniteSets, TLC

VARIABLES
    op,           \* the exported function that was called last ("none" at start)
    password,     \* its `password: String` argument
    hash,         \* verify_password_hash's `hash: String` argument
    passwords,    \* batch_hash_passwords' `passwords: Vec<String>` argument
    analysis,     \* what check_password_policy returned
    hashRet,      \* what hash_password returned
    verifyRet,    \* what verify_password_hash returned
    taskpc,       \* batch: each parallel task's position
    taskSalt,     \* batch: the salt each task generated
    taskHash,     \* batch: what each task's hash_password call returned
    taskOut,      \* batch: the (password, hash) pair each task produced
    collected,    \* batch: how many pairs the collect has inserted
    results,      \* batch: the HashMap being collected
    batchRet      \* what batch_hash_passwords returned

vars == <<op, password, hash, passwords, analysis, hashRet, verifyRet,
          taskpc, taskSalt, taskHash, taskOut, collected, results, batchRet>>

(***************************************************************************)
(* Bounds of the model.                                                    *)
(***************************************************************************)
\* A password argument is the concatenation of at most this many Fragments.
MaxFragments == 2
\* analysis_time_ms is observed in 0..MaxElapsedMs.
MaxElapsedMs == 1
\* batch_hash_passwords is called with at most this many passwords.
MaxBatch == 3
\* OsRng draws a salt from 1..NumSalts.
NumSalts == 2

(***************************************************************************)
(* Characters.                                                             *)
(***************************************************************************)
AlphaLower == <<"a","b","c","d","e","f","g","h","i","j","k","l","m",
                "n","o","p","q","r","s","t","u","v","w","x","y","z">>
AlphaUpper == <<"A","B","C","D","E","F","G","H","I","J","K","L","M",
                "N","O","P","Q","R","S","T","U","V","W","X","Y","Z">>
AsciiDigits == {"0","1","2","3","4","5","6","7","8","9"}

Range(s) == {s[i] : i \in DOMAIN s}

\* Non-ASCII characters of the model:
\*   e_acute   U+00E9, lowercase letter, 2 bytes in UTF-8
\*   E_acute   U+00C9, uppercase letter, 2 bytes, lowercases to U+00E9
\*   cjk_zhong U+4E2D, a letter with no case, 3 bytes
\*   ar_three  U+0663, a decimal digit (Nd), 2 bytes
\*   one_half  U+00BD, numeric (No) but no decimal digit, 2 bytes
\* and "!" is ASCII punctuation.
TwoByteChars == {"e_acute", "E_acute", "ar_three", "one_half"}
ThreeByteChars == {"cjk_zhong"}

\* char::len_utf8
len_utf8(c) == IF c \in TwoByteChars THEN 2
               ELSE IF c \in ThreeByteChars THEN 3 ELSE 1

is_uppercase(c) == c \in Range(AlphaUpper) \cup {"E_acute"}
is_lowercase(c) == c \in Range(AlphaLower) \cup {"e_acute"}
is_numeric(c) == c \in AsciiDigits \cup {"ar_three", "one_half"}
is_alphabetic(c) == is_uppercase(c) \/ is_lowercase(c) \/ c = "cjk_zhong"
is_alphanumeric(c) == is_alphabetic(c) \/ is_numeric(c)
\* the regex crate's \d: Unicode decimal digits
is_regex_digit(c) == c \in AsciiDigits \cup {"ar_three"}

\* char::to_lowercase (every character of the model lowercases to one character)
char_to_lowercase(c) ==
    IF c \in Range(AlphaUpper)
    THEN AlphaLower[CHOOSE i \in DOMAIN AlphaUpper : AlphaUpper[i] = c]
    ELSE IF c = "E_acute" THEN "e_acute" ELSE c

\* str::to_lowercase
to_lowercase(s) == [i \in DOMAIN s |-> char_to_lowercase(s[i])]

RECURSIVE SumBytes(_, _)
SumBytes(s, i) == IF i > Len(s) THEN 0 ELSE len_utf8(s[i]) + SumBytes(s, i + 1)

\* str::len: the length in bytes of the UTF-8 encoding (a usize)
str_len(s) == SumBytes(s, 1)

\* `x as u32` of a usize: the value modulo 2^32, which is the value itself
\* for every length below 2^31 (the integers TLC computes with).
as_u32(x) == x

(***************************************************************************)
(* Result<T> and f64 values.                                               *)
(***************************************************************************)
Ok(v) == [ok |-> TRUE, value |-> v]
Err(reason) == [ok |-> FALSE, reason |-> reason]

\* An f64 is NaN, an infinity, or a finite value kept in thousandths
\* (rounded down).
F64NaN == [class |-> "NaN"]
F64NegInf == [class |-> "-inf"]
F64Finite(milli) == [class |-> "finite", milli |-> milli]

\* f64::log2 of a charset size: log2(0.0) is -inf; the finite values are
\* floor(1000 * log2(n)) for the sums calculate_entropy can form.
f64_log2(n) ==
    IF n = 0 THEN F64NegInf
    ELSE F64Finite(CASE n = 10 -> 3321 [] n = 26 -> 4700 [] n = 32 -> 5000
                     [] n = 36 -> 5169 [] n = 42 -> 5392 [] n = 52 -> 5700
                     [] n = 58 -> 5857 [] n = 62 -> 5954 [] n = 68 -> 6087
                     [] n = 84 -> 6392 [] n = 94 -> 6554)

\* IEEE 754 product of a non-negative integer-valued f64 and an f64:
\* 0 * -inf is NaN, a positive length times -inf is -inf.
f64_mul(length, x) ==
    CASE x.class = "NaN" -> F64NaN
      [] x.class = "-inf" -> IF length = 0 THEN F64NaN ELSE F64NegInf
      [] x.class = "finite" -> F64Finite(length * x.milli)

(***************************************************************************)
(* Process-wide tables.                                                    *)
(***************************************************************************)
COMMON_PASSWORDS ==
    { <<"p","a","s","s","w","o","r","d">>,
      <<"1","2","3","4","5","6">>,
      <<"q","w","e","r","t","y">>,
      <<"a","d","m","i","n">> }

\* Whether `s` has `w` as a contiguous substring.
Contains(s, w) ==
    \E i \in 1..(Len(s) - Len(w) + 1) : SubSeq(s, i, i + Len(w) - 1) = w

\* The alternatives of an alternation of three-character runs taken from `row`.
Runs(row, first, last) == {SubSeq(row, i, i + 2) : i \in first..last}

DigitRow == <<"1","2","3","4","5","6","7","8","9">>
QwertyRow == <<"q","w","e","r","t","y","u","i","o","p">>

\* r"\d{4}"
MatchFourDigits(s) ==
    \E i \in 1..(Len(s) - 3) : \A j \in i..(i + 3) : is_regex_digit(s[j])
\* r"(abc|bcd|cde|def|efg|fgh|ghi|hij|ijk|jkl)"
MatchAlphaRun(s) == \E w \in Runs(AlphaLower, 1, 10) : Contains(s, w)
\* r"(123|234|345|456|567|678|789)"
MatchDigitRun(s) == \E w \in Runs(DigitRow, 1, 7) : Contains(s, w)
\* r"(qwe|wer|ert|rty|tyu|yui|uio|iop)"
MatchQwertyRun(s) == \E w \in Runs(QwertyRow, 1, 8) : Contains(s, w)

\* COMMON_PATTERNS_RE, by index
PatternMatches(k, s) ==
    CASE k = 1 -> MatchFourDigits(s)
      [] k = 2 -> MatchAlphaRun(s)
      [] k = 3 -> MatchDigitRun(s)
      [] k = 4 -> MatchQwertyRun(s)

(***************************************************************************)
(* Helpers of the analysis.                                                *)
(***************************************************************************)
\* Variant of is_common_password that compares without lowercasing.
is_common_password_exact(pw) == pw \in COMMON_PASSWORDS

\* is_common_password: lowercases, then looks the result up in COMMON_PASSWORDS
is_common_password(pw) == to_lowercase(pw) \in COMMON_PASSWORDS

\* count_repeated_chars: the windows of 3 characters that are all equal
count_repeated_chars(pw) ==
    Cardinality({i \in 1..(Len(pw) - 2) : pw[i] = pw[i + 1] /\ pw[i + 1] = pw[i + 2]})

\* count_sequential_chars: the patterns that match the lowercased password
count_sequential_chars(pw) ==
    LET lower_password == to_lowercase(pw)
    IN  Cardinality({k \in 1..4 : PatternMatches(k, lower_password)})

\* analyze_patterns
analyze_patterns(pw) ==
    [ has_uppercase    |-> \E i \in DOMAIN pw : is_uppercase(pw[i]),
      has_lowercase    |-> \E i \in DOMAIN pw : is_lowercase(pw[i]),
      has_numbers      |-> \E i \in DOMAIN pw : is_numeric(pw[i]),
      has_symbols      |-> \E i \in DOMAIN pw : ~is_alphanumeric(pw[i]),
      length           |-> as_u32(str_len(pw)),
      repeated_chars   |-> count_repeated_chars(pw),
      sequential_chars |-> count_sequential_chars(pw) ]

\* Variant of saturating_sub: a plain subtraction on a signed integer.
plain_sub(a, b) == a - b

\* u32::saturating_sub
saturating_sub(a, b) == IF a >= b THEN a - b ELSE 0

Min(a, b) == IF a <= b THEN a ELSE b
Max(a, b) == IF a >= b THEN a ELSE b

\* calculate_strength_score
calculate_strength_score(pw, a) ==
    LET n  == str_len(pw)
        s0 == IF n <= 7 THEN 5 ELSE IF n <= 11 THEN 25 ELSE 40
        s1 == s0 + (IF a.has_lowercase THEN 10 ELSE 0)
        s2 == s1 + (IF a.has_uppercase THEN 10 ELSE 0)
        s3 == s2 + (IF a.has_numbers THEN 15 ELSE 0)
        s4 == s3 + (IF a.has_symbols THEN 20 ELSE 0)
        s5 == IF a.repeated_chars > 0 THEN saturating_sub(s4, 10) ELSE s4
        s6 == IF a.sequential_chars > 0 THEN saturating_sub(s5, 15) ELSE s5
    IN  Min(s6, 100)

\* calculate_entropy
calculate_entropy(pw, a) ==
    LET charset_size == (IF a.has_lowercase THEN 26 ELSE 0)
                      + (IF a.has_uppercase THEN 26 ELSE 0)
                      + (IF a.has_numbers THEN 10 ELSE 0)
                      + (IF a.has_symbols THEN 32 ELSE 0)
        length == str_len(pw)
    IN  f64_mul(length, f64_log2(charset_size))

MsgTooShort == "Password is too short (minimum 8 characters recommended)."
MsgTooCommon == "This password is too common and easy to guess."
MsgSequential == "Passwords must not contain sequential characters (e.g., 'abc', '123')."
MsgUppercase == "Consider adding uppercase letters for more strength."
MsgNumbers == "Adding numbers will make your password stronger."
MsgSymbols == "Special characters like !@#$%^&* add significant security."
MsgManager == "For maximum security, use a password manager to generate long, random passwords."

\* Vec::push when `cond` holds
PushIf(cond, v, msg) == IF cond THEN Append(v, msg) ELSE v

\* Variant of generate_feedback that pushes the "too common" message before
\* the "too short" one.
generate_feedback_swapped(pw, a, score) ==
    LET f0 == <<>>
        f1 == PushIf(is_common_password(pw), f0, MsgTooCommon)
        f2 == PushIf(str_len(pw) < 8, f1, MsgTooShort)
        f3 == PushIf(a.sequential_chars > 0, f2, MsgSequential)
        f4 == PushIf(~a.has_uppercase, f3, MsgUppercase)
        f5 == PushIf(~a.has_numbers, f4, MsgNumbers)
        f6 == PushIf(~a.has_symbols, f5, MsgSymbols)
        f7 == PushIf(score < 75, f6, MsgManager)
    IN  f7

\* Variant of generate_feedback that has no message for sequential characters.
generate_feedback_without_sequential(pw, a, score) ==
    LET f0 == <<>>
        f1 == PushIf(str_len(pw) < 8, f0, MsgTooShort)
        f2 == PushIf(is_common_password(pw), f1, MsgTooCommon)
        f4 == PushIf(~a.has_uppercase, f2, MsgUppercase)
        f5 == PushIf(~a.has_numbers, f4, MsgNumbers)
        f6 == PushIf(~a.has_symbols, f5, MsgSymbols)
        f7 == PushIf(score < 75, f6, MsgManager)
    IN  f7

\* generate_feedback
generate_feedback(pw, a, score) ==
    LET f0 == <<>>
        f1 == PushIf(str_len(pw) < 8, f0, MsgTooShort)
        f2 == PushIf(is_common_password(pw), f1, MsgTooCommon)
        f3 == PushIf(a.sequential_chars > 0, f2, MsgSequential)
        f4 == PushIf(~a.has_uppercase, f3, MsgUppercase)
        f5 == PushIf(~a.has_numbers, f4, MsgNumbers)
        f6 == PushIf(~a.has_symbols, f5, MsgSymbols)
        f7 == PushIf(score < 75, f6, MsgManager)
    IN  f7

\* Variant of the is_compliant expression without the sequential_chars gate.
compliance_without_sequential(pw, a, score) ==
    /\ str_len(pw) >= 8
    /\ score > 50
    /\ ~is_common_password(pw)

\* the is_compliant expression of check_password_policy
compliance(pw, a, score) ==
    /\ str_len(pw) >= 8
    /\ score > 50
    /\ ~is_common_password(pw)
    /\ a.sequential_chars = 0

\* check_password_policy, with the elapsed time it measured
check_password_policy(pw, elapsed_ms) ==
    LET pattern_analysis == analyze_patterns(pw)
        strength_score == calculate_strength_score(pw, pattern_analysis)
        entropy_bits == calculate_entropy(pw, pattern_analysis)
        feedback == generate_feedback(pw, pattern_analysis, strength_score)
        is_compliant == compliance(pw, pattern_analysis, strength_score)
    IN  Ok([ is_compliant     |-> is_compliant,
             strength_score   |-> strength_score,
             entropy_bits     |-> entropy_bits,
             pattern_analysis |-> pattern_analysis,
             feedback         |-> feedback,
             analysis_time_ms |-> elapsed_ms ])

(***************************************************************************)
(* Hashing.  A hash string is modelled as the sequence of its '$'-separated*)
(* fields: <<algorithm, parameters, salt, digest>> for a well-formed one.  *)
(* The Argon2 digest of a password under a salt is modelled as the pair of *)
(* the two: equal digests come from equal passwords and salts only.        *)
(***************************************************************************)
Salts == 1..NumSalts

\* Argon2::default(): algorithm identifier and parameters
Argon2Ident == "argon2id"
Argon2Params == "v=19,m=19456,t=2,p=1"

\* the digest Argon2 computes
Argon2Digest(pw, salt) == [pwd |-> pw, salt |-> salt]

\* PasswordHash::to_string
PasswordHash_to_string(h) == <<h.algorithm, h.params, h.salt, h.hash>>

\* PasswordHash::new: parses a hash string, or fails
PasswordHash_new(s) ==
    IF /\ Len(s) = 4
       /\ s[1] \in {"argon2id", "argon2i", "scrypt"}
       /\ s[3] \in Salts
    THEN Ok([algorithm |-> s[1], params |-> s[2], salt |-> s[3], hash |-> s[4]])
    ELSE Err("invalid password hash")

\* Argon2::hash_password; `lib_fails` is an internal failure of the library
argon2_hash_password(pw, salt, lib_fails) ==
    IF lib_fails THEN Err("argon2 failure")
    ELSE Ok([algorithm |-> Argon2Ident, params |-> Argon2Params,
             salt |-> salt, hash |-> Argon2Digest(pw, salt)])

\* Argon2::verify_password
argon2_verify_password(pw, parsed_hash) ==
    IF /\ parsed_hash.algorithm = Argon2Ident
       /\ parsed_hash.hash = Argon2Digest(pw, parsed_hash.salt)
    THEN Ok(TRUE)
    ELSE Err("password mismatch")

\* hash_password, given the salt OsRng generated
hash_password(pw, salt, lib_fails) ==
    LET r == argon2_hash_password(pw, salt, lib_fails)
    IN  IF r.ok THEN Ok(PasswordHash_to_string(r.value))
        ELSE Err("Failed to hash password")

\* Variant of verify_password_hash that returns the parse failure as an error.
verify_password_hash_propagating(pw, h) ==
    LET parsed == PasswordHash_new(h)
    IN  IF parsed.ok
        THEN Ok(argon2_verify_password(pw, parsed.value).ok)
        ELSE Err("Invalid hash")

\* verify_password_hash
verify_password_hash(pw, h) ==
    LET parsed == PasswordHash_new(h)
    IN  IF parsed.ok
        THEN Ok(argon2_verify_password(pw, parsed.value).ok)
        ELSE Ok(FALSE)

\* "ERROR".to_string()
ErrorSentinel == <<"ERROR">>

\* Variant of the closure that uses unwrap_or_default: an empty string, not
\* the sentinel, stands for a failed hash.
batch_entry_default(pw, hashed) ==
    <<pw, IF hashed.ok THEN hashed.value ELSE <<>> >>

\* the closure batch_hash_passwords maps over the passwords, given what its
\* hash_password call returned
batch_entry(pw, hashed) ==
    <<pw, IF hashed.ok THEN hashed.value ELSE ErrorSentinel>>

\* HashMap::insert
MapInsert(m, k, v) == [x \in (DOMAIN m) \cup {k} |-> IF x = k THEN v ELSE m[x]]

\* the value batch_hash_passwords returns
batch_return(m) == Ok(m)

(***************************************************************************)
(* Inputs.                                                                 *)
(***************************************************************************)
Fragments ==
    { <<"a">>, <<"Z">>, <<"7">>, <<"!">>,
      <<"e_acute">>, <<"E_acute">>, <<"cjk_zhong">>, <<"ar_three">>, <<"one_half">>,
      <<"A","A","A">>, <<"a","b","c">>, <<"Q","W","E">>, <<"1","2","3">>,
      <<"9","0","9","0">>,
      <<"T","r","7","!","x","K">>,
      <<"T","r","7","!","x","K","m","4","?","V","b","8">>,
      <<"p","a","s","s","w","o","r","d">>,
      <<"P","a","s","s","W","O","R","D">>,
      <<"A","d","m","i","n">>,
      <<"Q","W","E","R","T","Y">>,
      <<"1","2","3","4","5","6">> }

RECURSIVE Concatenations(_)
Concatenations(n) ==
    IF n = 0 THEN {<<>>}
    ELSE LET shorter == Concatenations(n - 1)
         IN  shorter \cup {p \o f : p \in shorter, f \in Fragments}

\* The password arguments of the model.
Passwords == Concatenations(MaxFragments)

\* The password arguments of hash_password and verify_password_hash.
HashPasswords == {<<>>} \cup Fragments

\* The hash arguments of verify_password_hash: every hash hash_password can
\* return for a password of the model, hashes of other algorithms, and
\* strings that are no hash.
MalformedHashes ==
    { <<>>, <<"not-a-valid-hash-string">>, ErrorSentinel,
      <<"argon2id", "v=19,m=19456,t=2,p=1", 1>>,
      <<"md5", "", 1, Argon2Digest(<<"a">>, 1)>> }

HashStrings ==
    {hash_password(pw, salt, FALSE).value : pw \in HashPasswords, salt \in Salts}
    \cup {<<"scrypt", "ln=15", salt, Argon2Digest(<<"a">>, salt)>> : salt \in Salts}
    \cup MalformedHashes

\* The passwords batch_hash_passwords is called with.
BatchPasswords == {<<"a">>, <<"Z">>}

RECURSIVE SeqsUpTo(_, _)
SeqsUpTo(S, n) ==
    IF n = 0 THEN {<<>>}
    ELSE LET shorter == SeqsUpTo(S, n - 1)
         IN  shorter \cup {Append(s, x) : s \in shorter, x \in S}


None == [none |-> TRUE]

Init ==
    /\ op = "none"
    /\ password = <<>>
    /\ hash = <<>>
    /\ passwords = <<>>
    /\ analysis = None
    /\ hashRet = None
    /\ verifyRet = None
    /\ taskpc = <<>>
    /\ taskSalt = <<>>
    /\ taskHash = <<>>
    /\ taskOut = <<>>
    /\ collected = 0
    /\ results = <<>>
    /\ batchRet = None

\* The variables of batch_hash_passwords, untouched by the other functions.
batchVars == <<passwords, taskpc, taskSalt, taskHash, taskOut, collected,
               results, batchRet>>

\* check_password_policy(password): the calls are synchronous, one at a time.
CheckPasswordPolicy ==
    /\ op = "none"
    /\ \E pw \in Passwords, elapsed_ms \in 0..MaxElapsedMs :
        /\ op' = "check_password_policy"
        /\ password' = pw
        /\ analysis' = check_password_policy(pw, elapsed_ms)
    /\ UNCHANGED <<hash, hashRet, verifyRet, batchVars>>

\* hash_password(password)
HashPassword ==
    /\ op = "none"
    /\ \E pw \in HashPasswords, salt \in Salts, lib_fails \in BOOLEAN :
        /\ op' = "hash_password"
        /\ password' = pw
        /\ hashRet' = hash_password(pw, salt, lib_fails)
    /\ UNCHANGED <<hash, analysis, verifyRet, batchVars>>

\* verify_password_hash(password, hash)
VerifyPasswordHash ==
    /\ op = "none"
    /\ \E pw \in HashPasswords, h \in HashStrings :
        /\ op' = "verify_password_hash"
        /\ password' = pw
        /\ hash' = h
        /\ verifyRet' = verify_password_hash(pw, h)
    /\ UNCHANGED <<analysis, hashRet, batchVars>>

\* batch_hash_passwords(passwords): par_iter() makes one task per password.
BatchStart ==
    /\ op = "none"
    /\ \E ps \in SeqsUpTo(BatchPasswords, MaxBatch) :
        /\ op' = "batch_hash_passwords"
        /\ passwords' = ps
        /\ taskpc' = [i \in DOMAIN ps |-> "salt"]
        /\ taskSalt' = [i \in DOMAIN ps |-> 0]
        /\ taskHash' = [i \in DOMAIN ps |-> None]
        /\ taskOut' = [i \in DOMAIN ps |-> None]
    /\ UNCHANGED <<password, hash, analysis, hashRet, verifyRet,
                   collected, results, batchRet>>

\* Task i, in hash_password: SaltString::generate(&mut OsRng)
TaskSalt(i) ==
    /\ op = "batch_hash_passwords"
    /\ taskpc[i] = "salt"
    /\ \E salt \in Salts : taskSalt' = [taskSalt EXCEPT ![i] = salt]
    /\ taskpc' = [taskpc EXCEPT ![i] = "hash"]
    /\ UNCHANGED <<op, password, hash, analysis, hashRet, verifyRet, passwords,
                   taskHash, taskOut, collected, results, batchRet>>

\* Task i: the rest of hash_password, and the pair the closure returns
TaskHash(i) ==
    /\ op = "batch_hash_passwords"
    /\ taskpc[i] = "hash"
    /\ \E lib_fails \in BOOLEAN :
        LET hashed == hash_password(passwords[i], taskSalt[i], lib_fails)
        IN  /\ taskHash' = [taskHash EXCEPT ![i] = hashed]
            /\ taskOut' = [taskOut EXCEPT ![i] = batch_entry(passwords[i], hashed)]
    /\ taskpc' = [taskpc EXCEPT ![i] = "done"]
    /\ UNCHANGED <<op, password, hash, analysis, hashRet, verifyRet, passwords,
                   taskSalt, collected, results, batchRet>>

\* collect(): once every task is done, the pairs are inserted into the
\* HashMap in the order of the input.
Collect ==
    /\ op = "batch_hash_passwords"
    /\ batchRet = None
    /\ \A i \in DOMAIN taskpc : taskpc[i] = "done"
    /\ collected < Len(passwords)
    /\ collected' = collected + 1
    /\ results' = MapInsert(results, taskOut[collected + 1][1], taskOut[collected + 1][2])
    /\ UNCHANGED <<op, password, hash, analysis, hashRet, verifyRet, passwords,
                   taskpc, taskSalt, taskHash, taskOut, batchRet>>

\* Ok(results)
BatchReturn ==
    /\ op = "batch_hash_passwords"
    /\ batchRet = None
    /\ \A i \in DOMAIN taskpc : taskpc[i] = "done"
    /\ collected = Len(passwords)
    /\ batchRet' = batch_return(results)
    /\ UNCHANGED <<op, password, hash, analysis, hashRet, verifyRet, passwords,
                   taskpc, taskSalt, taskHash, taskOut, collected, results>>

\* Whether the call in `op` has returned.
Returned == IF op = "batch_hash_passwords" THEN batchRet # None ELSE op # "none"

\* The caller takes the returned value; nothing is kept between calls.
Return ==
    /\ Returned
    /\ op' = "none"
    /\ password' = <<>>
    /\ hash' = <<>>
    /\ passwords' = <<>>
    /\ analysis' = None
    /\ hashRet' = None
    /\ verifyRet' = None
    /\ taskpc' = <<>>
    /\ taskSalt' = <<>>
    /\ taskHash' = <<>>
    /\ taskOut' = <<>>
    /\ collected' = 0
    /\ results' = <<>>
    /\ batchRet' = None

NextPolicy == CheckPasswordPolicy \/ Return

NextHash == HashPassword \/ VerifyPasswordHash \/ Return

NextBatch ==
    \/ BatchStart
    \/ \E i \in DOMAIN taskpc : TaskSalt(i)
    \/ \E i \in DOMAIN taskpc : TaskHash(i)
    \/ Collect
    \/ BatchReturn
    \/ Return

Next == NextPolicy \/ NextHash \/ NextBatch

\* check_password_policy alone
SpecPolicy == Init /\ [][NextPolicy]_vars

\* hash_password and verify_password_hash
SpecHash == Init /\ [][NextHash]_vars

\* batch_hash_passwords
SpecBatch == Init /\ [][NextBatch]_vars

\* every exported function of the model
Spec == Init /\ [][Next]_vars

(***************************************************************************)
(* Properties.                                                             *)
(***************************************************************************)
\* The value check_password_policy returned, once it has.
Analysed == op = "check_password_policy"
Result == analysis.value

\* Two characters that are equal when case is ignored.
SameIgnoringCase(x, y) ==
    \/ x = y
    \/ \E i \in DOMAIN AlphaLower : {x, y} = {AlphaLower[i], AlphaUpper[i]}

\* The password is a member of the common-password set under some mix of
\* upper and lower case.
InCommonSetAnyCase(pw) ==
    \E c \in COMMON_PASSWORDS :
        /\ Len(pw) = Len(c)
        /\ \A i \in DOMAIN c : SameIgnoringCase(pw[i], c[i])

\* C1: is_compliant is true if and only if, for the values returned, the
\* fingerprint's length is at least 8, strength_score is above 50, the
\* password is not in the common-password set (case ignored) and the
\* fingerprint's sequential_chars is 0.
C1_ComplianceIff ==
    Analysed =>
        (Result.is_compliant <=>
            /\ Result.pattern_analysis.length >= 8
            /\ Result.strength_score > 50
            /\ ~InCommonSetAnyCase(password)
            /\ Result.pattern_analysis.sequential_chars = 0)

\* A password scored above 50 that fails compliance only for its sequence.
C1_Witness ==
    /\ Analysed
    /\ Result.strength_score > 50
    /\ Result.pattern_analysis.length >= 8
    /\ ~InCommonSetAnyCase(password)
    /\ Result.pattern_analysis.sequential_chars > 0
    /\ ~Result.is_compliant

\* C2: a password of fewer than 8 characters (Unicode scalar values) is
\* never compliant.
C2_ShortNeverCompliant ==
    (Analysed /\ Len(password) < 8) => ~Result.is_compliant

\* C3: a password that equals a common password under any mix of case is
\* not compliant and its feedback holds the "too common" message.
C3_CommonRejected ==
    (Analysed /\ InCommonSetAnyCase(password)) =>
        /\ ~Result.is_compliant
        /\ MsgTooCommon \in Range(Result.feedback)

\* "PassWORD", a common password in mixed case, was analysed.
C3_Witness ==
    /\ Analysed
    /\ password = <<"P","a","s","s","W","O","R","D">>
    /\ ~Result.is_compliant
    /\ MsgTooCommon \in Range(Result.feedback)

\* The points of the scoring table, summed as integers, for a fingerprint.
ScorePoints(a) ==
    (IF a.length <= 7 THEN 5 ELSE IF a.length <= 11 THEN 25 ELSE 40)
    + (IF a.has_lowercase THEN 10 ELSE 0) + (IF a.has_uppercase THEN 10 ELSE 0)
    + (IF a.has_numbers THEN 15 ELSE 0) + (IF a.has_symbols THEN 20 ELSE 0)
ScorePenalties(a) ==
    (IF a.repeated_chars > 0 THEN 10 ELSE 0)
    + (IF a.sequential_chars > 0 THEN 15 ELSE 0)

\* C4: the strength score is in 0..100 and is the sum of the points less
\* the penalties, floored at 0 and capped at 100: the penalties never wrap.
C4_ScoreInRange ==
    Analysed =>
        /\ Result.strength_score \in 0..100
        /\ Result.strength_score =
             Min(100, Max(0, ScorePoints(Result.pattern_analysis)
                             - ScorePenalties(Result.pattern_analysis)))

\* A short all-uppercase password with a repeated run and a sequence: its
\* points are fewer than its penalties, and its score is 0.
C4_Witness ==
    /\ Analysed
    /\ Result.pattern_analysis.repeated_chars > 0
    /\ Result.pattern_analysis.sequential_chars > 0
    /\ ScorePoints(Result.pattern_analysis) < ScorePenalties(Result.pattern_analysis)
    /\ Result.pattern_analysis.has_uppercase
    /\ ~Result.pattern_analysis.has_lowercase
    /\ Result.strength_score = 0

\* The fingerprint has no class flag set.
NoClassFlag(a) ==
    ~a.has_lowercase /\ ~a.has_uppercase /\ ~a.has_numbers /\ ~a.has_symbols

\* C5: when the fingerprint has all four class flags false, the entropy
\* estimate is exactly 0 (not NaN, not infinite, not negative).
C5_EntropyZeroWithoutClasses ==
    (Analysed /\ NoClassFlag(Result.pattern_analysis)) =>
        Result.entropy_bits = F64Finite(0)

\* The seven messages in their fixed order.
AllMessages ==
    <<MsgTooShort, MsgTooCommon, MsgSequential, MsgUppercase, MsgNumbers,
      MsgSymbols, MsgManager>>

\* The condition of message k, read from the returned values.
MessageDue(k) ==
    CASE k = 1 -> Result.pattern_analysis.length < 8
      [] k = 2 -> InCommonSetAnyCase(password)
      [] k = 3 -> Result.pattern_analysis.sequential_chars > 0
      [] k = 4 -> ~Result.pattern_analysis.has_uppercase
      [] k = 5 -> ~Result.pattern_analysis.has_numbers
      [] k = 6 -> ~Result.pattern_analysis.has_symbols
      [] k = 7 -> Result.strength_score < 75

\* The number of a message in the fixed order.
MessageNumber(m) == CHOOSE k \in DOMAIN AllMessages : AllMessages[k] = m

C6_WitnessEmpty == Analysed /\ Result.feedback = <<>>

\* C7: batch_hash_passwords returns Ok with a map whose keys are exactly the
\* distinct input passwords; each entry is the outcome of one of the tasks
\* of its own password: the hash that task produced (which verifies for the
\* password), or the sentinel "ERROR" when that task's hashing failed.
C7_BatchMap ==
    batchRet # None =>
        /\ batchRet.ok
        /\ DOMAIN batchRet.value = Range(passwords)
        /\ \A p \in DOMAIN batchRet.value :
             \E i \in DOMAIN passwords :
                /\ passwords[i] = p
                /\ IF taskHash[i].ok
                   THEN /\ batchRet.value[p] = taskHash[i].value
                        /\ batchRet.value[p] # ErrorSentinel
                        /\ PasswordHash_new(batchRet.value[p]).ok
                        /\ PasswordHash_new(batchRet.value[p]).value.hash
                             = Argon2Digest(p, taskSalt[i])
                   ELSE batchRet.value[p] = ErrorSentinel

\* A batch with a duplicate returned: one entry per distinct password, one
\* of them the sentinel of a failed task, the other a hash.
C7_Witness ==
    /\ batchRet # None
    /\ Len(passwords) = 3
    /\ Cardinality(DOMAIN batchRet.value) = 2
    /\ \E p, q \in DOMAIN batchRet.value :
          /\ batchRet.value[p] = ErrorSentinel
          /\ batchRet.value[q] # ErrorSentinel

\* C8: the fingerprint's length is the number of characters (Unicode scalar
\* values) of the password.
C8_LengthIsCharCount ==
    Analysed => Result.pattern_analysis.length = Len(password)

\* C9: verify_password_hash never returns an error; for a hash string that
\* does not parse it returns false, and for one that parses it returns
\* whether the password matches.
C9_VerifyTotal ==
    op = "verify_password_hash" =>
        /\ verifyRet.ok
        /\ verifyRet.value \in BOOLEAN
        /\ ~PasswordHash_new(hash).ok => verifyRet.value = FALSE
        /\ PasswordHash_new(hash).ok =>
             (verifyRet.value <=>
                 /\ hash[1] = Argon2Ident
                 /\ hash[4] = Argon2Digest(password, hash[3]))

\* A string that is no hash was verified, and the answer was false.
C9_Witness ==
    /\ op = "verify_password_hash"
    /\ hash = <<"not-a-valid-hash-string">>
    /\ verifyRet = Ok(FALSE)

\* C10: a result that is not compliant has a non-empty feedback list.
C10_NonCompliantHasFeedback ==
    (Analysed /\ ~Result.is_compliant) => Result.feedback # <<>>

\* A password scored 75 or more with every class present that fails
\* compliance for its sequence alone: the sequence message is its only one.
C10_Witness ==
    /\ Analysed
    /\ ~Result.is_compliant
    /\ Result.strength_score >= 75
    /\ Result.feedback = <<MsgSequential>>

=============================================================================
